---- MODULE Spec2Model ----
(***************************************************************************)
(* A model of the cdr crate: the top-level API of src/src/lib.rs           *)
(* (calc_serialized_size, calc_serialized_size_bounded, serialize,         *)
(* serialize_into, deserialize, deserialize_from) and the Deserializer of  *)
(* src/src/de.rs, run as a step machine over a byte source.                *)
(*                                                                         *)
(* Values.  An integer or float of width w is kept as its w base-256       *)
(* digits, most significant first, so that from_be_bytes is the identity   *)
(* on the buffer and from_le_bytes reverses it; a bool is a BOOLEAN, a     *)
(* char its code point, a string or byte buffer its bytes, a sequence,     *)
(* tuple, array or struct the sequence of its elements, an enum value the  *)
(* record of its variant index and payload.                                *)
(***************************************************************************)
EXTENDS Integers, Sequences, FiniteSets, TLC

VARIABLES
    status,      \* "idle" | "run" | "ok" | "err": the state of the API call
    call,        \* the inputs of the API call being made
    ret,         \* what the call returned
    sink,        \* the bytes of the writer
    capacity,    \* the capacity serialize reserved for its buffer
    reader,      \* the bytes of the source not yet consumed (a slice)
    more,        \* how many more bytes a streaming source can still produce
    consumed,    \* bytes taken from the source by this decoder
    pos,         \* Deserializer.pos
    endianness,  \* Deserializer.endianness
    total,       \* the size limit's running total
    stack,       \* the calls of the decoder still to run, innermost first
    vals,        \* the values decoded and not yet taken by a visitor
    prim         \* where the last primitive started and ended

vars == <<status, call, ret, sink, capacity, reader, more, consumed, pos, endianness,
          total, stack, vals, prim>>

(***************************************************************************)
(* Bounds of the model.                                                    *)
(***************************************************************************)
MaxSeq == 2      \* most elements of a sequence a value holds
MaxStr == 2      \* most bytes of a string or byte buffer a value holds
MaxLimit == 8    \* largest bound given to a Bounded size limit

(***************************************************************************)
(* Program constants.                                                      *)
(***************************************************************************)
ENCAPSULATION_HEADER_SIZE == 4

Byte == 0..255

\* The bytes a streaming source produces in the model.
SampleBytes == {0, 1, 2, 3, 195}

\* A length no source of the model can satisfy: stands for every u32 that
\* does not fit two base-256 digits.
HugeLen == 256 * 256

(***************************************************************************)
(* Sequences and digits.                                                   *)
(***************************************************************************)
Reverse(s) == [i \in 1..Len(s) |-> s[Len(s) + 1 - i]]

Zeros(n) == [i \in 1..n |-> 0]

Take(s, n) == SubSeq(s, 1, n)

Drop(s, n) == SubSeq(s, n + 1, Len(s))

\* The last n elements of s.
LastN(s, n) == SubSeq(s, Len(s) - n + 1, Len(s))

\* n < 65536 as w >= 2 base-256 digits, most significant first.
ToDigits(n, w) ==
    [i \in 1..w |-> IF i = w THEN n % 256
                    ELSE IF i = w - 1 THEN (n \div 256) % 256 ELSE 0]

\* `len as usize` of a decoded u32.
ToNat(d) ==
    IF \A i \in 1..(Len(d) - 2) : d[i] = 0
    THEN d[Len(d) - 1] * 256 + d[Len(d)]
    ELSE HugeLen

RECURSIVE BitAnd(_, _)
BitAnd(a, b) ==
    IF a = 0 \/ b = 0 THEN 0
    ELSE (a % 2) * (b % 2) + 2 * BitAnd(a \div 2, b \div 2)

(***************************************************************************)
(* RepresentationFormat.                                                   *)
(***************************************************************************)
RepresentationFormat == {"CdrBe", "CdrLe", "PlCdrBe", "PlCdrLe"}

FormatId(f) ==
    CASE f = "CdrBe" -> 0
      [] f = "CdrLe" -> 1
      [] f = "PlCdrBe" -> 2
      [] f = "PlCdrLe" -> 3

FormatOption(f) == 0

FormatEndianness(f) ==
    IF f \in {"CdrBe", "PlCdrBe"} THEN "BigEndian" ELSE "LittleEndian"

\* try_from reading the format id as a little-endian u16.
TryFromLittleEndian(value) ==
    LET representation_value == value[2] * 256 + value[1]
    IN  CASE representation_value = 0 -> "CdrBe"
          [] representation_value = 1 -> "CdrLe"
          [] representation_value = 2 -> "PlCdrBe"
          [] representation_value = 3 -> "PlCdrLe"
          [] OTHER -> "InvalidEncapsulation"

\* TryFrom<[u8;4]>: the format, or "InvalidEncapsulation".
TryFrom(value) ==
    LET representation_value == value[1] * 256 + value[2]
    IN  CASE representation_value = 0 -> "CdrBe"
          [] representation_value = 1 -> "CdrLe"
          [] representation_value = 2 -> "PlCdrBe"
          [] representation_value = 3 -> "PlCdrLe"
          [] OTHER -> "InvalidEncapsulation"

(***************************************************************************)
(* Shapes: what the traversal protocol (serde) tells the codec about a     *)
(* type.                                                                   *)
(***************************************************************************)
P(k) == [k |-> k, fs |-> <<>>]
SeqOf(e) == [k |-> "seq", fs |-> <<e>>]
TupleOf(fs) == [k |-> "tuple", fs |-> fs]
StructOf(fs) == [k |-> "struct", fs |-> fs]
TupleStructOf(fs) == [k |-> "tuple_struct", fs |-> fs]
NewtypeOf(e) == [k |-> "newtype_struct", fs |-> <<e>>]
OptionOf(e) == [k |-> "option", fs |-> <<e>>]
\* An enum: fs holds one entry per variant, of kind unit_variant,
\* newtype_variant, tuple_variant or struct_variant.
EnumOf(vs) == [k |-> "enum", fs |-> vs]
Variant(vk, fs) == [k |-> vk, fs |-> fs]

IntKinds == {"u8", "i8", "u16", "i16", "u32", "i32", "u64", "i64", "f32", "f64"}

Width(k) ==
    CASE k \in {"u8", "i8"} -> 1
      [] k \in {"u16", "i16"} -> 2
      [] k \in {"u32", "i32", "f32"} -> 4
      [] k \in {"u64", "i64", "f64"} -> 8

TupleKinds == {"tuple", "struct", "tuple_struct"}

UnsupportedKinds == {"option", "map", "identifier", "ignored_any", "any"}

(***************************************************************************)
(* Results and size limits.                                                *)
(***************************************************************************)
Ok(v) == [tag |-> "Ok", val |-> v, err |-> "", byte |-> 0]
Err(e) == [tag |-> "Err", val |-> <<>>, err |-> e, byte |-> 0]
ErrByte(e, b) == [tag |-> "Err", val |-> <<>>, err |-> e, byte |-> b]
None == [tag |-> "None", val |-> <<>>, err |-> "", byte |-> 0]

Infinite == [bounded |-> FALSE, max |-> 0]
Bounded(m) == [bounded |-> TRUE, max |-> m]
Limits == {Infinite} \cup {Bounded(m) : m \in 0..MaxLimit}

\* SizeLimit::add(n) on a limit whose running total is t: TRUE when the
\* bound is exceeded.
LimitExceeded(limit, t, n) == limit.bounded /\ t + n > limit.max

(***************************************************************************)
(* The values the encoder is given.                                        *)
(***************************************************************************)
IntVals(w) ==
    IF w = 1 THEN {<<0>>, <<1>>, <<195>>}
    ELSE {Zeros(w), ToDigits(1, w),
          [i \in 1..w |-> IF i = 1 THEN 195 ELSE IF i = w THEN 2 ELSE 0]}

CharVals == {0, 90, 127}

\* Every sequence of at most n elements of S.
RECURSIVE SeqsUpTo(_, _)
SeqsUpTo(S, n) ==
    IF n = 0 THEN {<<>>}
    ELSE LET shorter == SeqsUpTo(S, n - 1)
         IN  shorter \cup {Append(t, x) : t \in {u \in shorter : Len(u) = n - 1}, x \in S}

RECURSIVE ValuesOf(_)
RECURSIVE FieldVals(_)
FieldVals(fs) ==
    IF fs = <<>> THEN {<<>>}
    ELSE {<<h>> \o t : h \in ValuesOf(Head(fs)), t \in FieldVals(Tail(fs))}

ValuesOf(s) ==
    CASE s.k \in IntKinds -> IntVals(Width(s.k))
      [] s.k = "bool" -> BOOLEAN
      [] s.k = "char" -> CharVals
      [] s.k = "string" -> SeqsUpTo({65, 66}, MaxStr) \cup {<<195, 169>>}
      [] s.k = "bytes" -> SeqsUpTo({0, 255}, MaxStr)
      [] s.k = "unit" -> {<<>>}
      [] s.k = "seq" -> SeqsUpTo(ValuesOf(s.fs[1]), MaxSeq)
      [] s.k \in TupleKinds -> FieldVals(s.fs)
      [] s.k = "newtype_struct" -> ValuesOf(s.fs[1])
      [] s.k = "enum" ->
            UNION {{[idx |-> i - 1, payload |-> p] : p \in FieldVals(s.fs[i].fs)}
                   : i \in 1..Len(s.fs)}

(***************************************************************************)
(* The Serializer (ser.rs), from sections 4.1 to 4.3 of the specification. *)
(***************************************************************************)
\* Padding before a value of width w at position p.
PaddingOf(p, w) == (w - (p % w)) % w

PackInt(d, e) == IF e = "BigEndian" THEN d ELSE Reverse(d)

EncodeInt(d, p, e) == Zeros(PaddingOf(p, Len(d))) \o PackInt(d, e)

RECURSIVE Encode(_, _, _, _)
RECURSIVE EncodeFields(_, _, _, _)
\* The fields vs of shapes fs, one after the other from position p.
EncodeFields(fs, vs, p, e) ==
    IF fs = <<>> THEN <<>>
    ELSE LET first == Encode(Head(fs), Head(vs), p, e)
         IN  first \o EncodeFields(Tail(fs), Tail(vs), p + Len(first), e)

\* The bytes of value v of shape s written from position p.
Encode(s, v, p, e) ==
    CASE s.k \in IntKinds -> EncodeInt(v, p, e)
      [] s.k = "bool" -> IF v THEN <<1>> ELSE <<0>>
      [] s.k = "char" -> <<v>>
      [] s.k = "string" -> EncodeInt(ToDigits(Len(v) + 1, 4), p, e) \o v \o <<0>>
      [] s.k = "bytes" -> EncodeInt(ToDigits(Len(v), 4), p, e) \o v
      [] s.k = "unit" -> <<>>
      [] s.k = "seq" ->
            LET count == EncodeInt(ToDigits(Len(v), 4), p, e)
            IN  count \o EncodeFields([i \in 1..Len(v) |-> s.fs[1]], v,
                                      p + Len(count), e)
      [] s.k \in TupleKinds -> EncodeFields(s.fs, v, p, e)
      [] s.k = "newtype_struct" -> Encode(s.fs[1], v, p, e)
      [] s.k = "enum" ->
            LET index == EncodeInt(ToDigits(v.idx, 4), p, e)
            IN  index \o EncodeFields(s.fs[v.idx + 1].fs, v.payload,
                                      p + Len(index), e)

(***************************************************************************)
(* The size pass (size.rs), from section 4.4 of the specification: the     *)
(* same position arithmetic on a counter.                                  *)
(***************************************************************************)
RECURSIVE SizeAt(_, _, _)
RECURSIVE SizeFieldsAt(_, _, _)
\* The position after the fields vs of shapes fs counted from position p.
SizeFieldsAt(fs, vs, p) ==
    IF fs = <<>> THEN p
    ELSE SizeFieldsAt(Tail(fs), Tail(vs), SizeAt(Head(fs), Head(vs), p))

\* The position after value v of shape s counted from position p.
SizeAt(s, v, p) ==
    CASE s.k \in IntKinds -> p + PaddingOf(p, Width(s.k)) + Width(s.k)
      [] s.k \in {"bool", "char"} -> p + 1
      [] s.k = "string" -> p + PaddingOf(p, 4) + 4 + Len(v) + 1
      [] s.k = "bytes" -> p + PaddingOf(p, 4) + 4 + Len(v)
      [] s.k = "unit" -> p
      [] s.k = "seq" ->
            SizeFieldsAt([i \in 1..Len(v) |-> s.fs[1]], v, p + PaddingOf(p, 4) + 4)
      [] s.k \in TupleKinds -> SizeFieldsAt(s.fs, v, p)
      [] s.k = "newtype_struct" -> SizeAt(s.fs[1], v, p)
      [] s.k = "enum" ->
            SizeFieldsAt(s.fs[v.idx + 1].fs, v.payload, p + PaddingOf(p, 4) + 4)

calc_serialized_data_size(s, v) == SizeAt(s, v, 0)

calc_serialized_data_size_bounded(s, v, max) ==
    IF SizeAt(s, v, 0) > max THEN Err("SizeLimit") ELSE Ok(SizeAt(s, v, 0))

(***************************************************************************)
(* The encoding side of the top-level API (lib.rs).                        *)
(***************************************************************************)
calc_serialized_size(s, v) == calc_serialized_data_size(s, v)

calc_serialized_size_bounded(s, v, max) ==
    IF max < ENCAPSULATION_HEADER_SIZE THEN Err("SizeLimit")
    ELSE LET r == calc_serialized_data_size_bounded(s, v, max)
         IN  IF r.tag = "Ok" THEN Ok(r.val + ENCAPSULATION_HEADER_SIZE) ELSE r

\* serialize_into writing the header before it checks the bound.
serialize_into_header_first(w0, s, v, f, limit) ==
    LET header == <<0, FormatId(f), 0, 0>>
    IN  IF limit.bounded /\ calc_serialized_size_bounded(s, v, limit.max).tag = "Err"
        THEN [writer |-> w0 \o header,
              ret |-> calc_serialized_size_bounded(s, v, limit.max)]
        ELSE [writer |-> w0 \o header \o Encode(s, v, 0, FormatEndianness(f)),
              ret |-> Ok(<<>>)]

\* serialize_into writing the header in the byte order of the format.
serialize_into_native_header(w0, s, v, f, limit) ==
    IF limit.bounded /\ calc_serialized_size_bounded(s, v, limit.max).tag = "Err"
    THEN [writer |-> w0, ret |-> calc_serialized_size_bounded(s, v, limit.max)]
    ELSE LET id == EncodeInt(ToDigits(FormatId(f), 2), 0, FormatEndianness(f))
             option == EncodeInt(ToDigits(FormatOption(f), 2), Len(id),
                                 FormatEndianness(f))
         IN  [writer |-> w0 \o id \o option \o Encode(s, v, 0, FormatEndianness(f)),
              ret |-> Ok(<<>>)]

\* What serialize_into leaves in a writer holding w0, and what it returns.
serialize_into(w0, s, v, f, limit) ==
    IF limit.bounded /\ calc_serialized_size_bounded(s, v, limit.max).tag = "Err"
    THEN [writer |-> w0, ret |-> calc_serialized_size_bounded(s, v, limit.max)]
    ELSE LET id == EncodeInt(ToDigits(FormatId(f), 2), 0, FormatEndianness("CdrBe"))
             option == EncodeInt(ToDigits(FormatOption(f), 2), Len(id),
                                 FormatEndianness("CdrBe"))
         IN  [writer |-> w0 \o id \o option \o Encode(s, v, 0, FormatEndianness(f)),
              ret |-> Ok(<<>>)]

\* What serialize reserves and returns.
serialize(s, v, f, limit) ==
    LET sized == IF limit.bounded
                 THEN calc_serialized_size_bounded(s, v, limit.max)
                 ELSE Ok(calc_serialized_size(s, v))
    IN  IF sized.tag = "Err" THEN [capacity |-> 0, ret |-> sized]
        ELSE [capacity |-> sized.val,
              ret |-> Ok(serialize_into(<<>>, s, v, f, Infinite).writer)]

(***************************************************************************)
(* The decoder's pure parts (de.rs).                                       *)
(***************************************************************************)
\* https://tools.ietf.org/html/rfc3629
UTF8_CHAR_WIDTH ==
    << 1, 1, 1, 1, 1, 1, 1, 1, 1, 1, 1, 1, 1, 1, 1, 1,
       1, 1, 1, 1, 1, 1, 1, 1, 1, 1, 1, 1, 1, 1, 1, 1,
       1, 1, 1, 1, 1, 1, 1, 1, 1, 1, 1, 1, 1, 1, 1, 1,
       1, 1, 1, 1, 1, 1, 1, 1, 1, 1, 1, 1, 1, 1, 1, 1,
       1, 1, 1, 1, 1, 1, 1, 1, 1, 1, 1, 1, 1, 1, 1, 1,
       1, 1, 1, 1, 1, 1, 1, 1, 1, 1, 1, 1, 1, 1, 1, 1,
       1, 1, 1, 1, 1, 1, 1, 1, 1, 1, 1, 1, 1, 1, 1, 1,
       1, 1, 1, 1, 1, 1, 1, 1, 1, 1, 1, 1, 1, 1, 1, 1,
       0, 0, 0, 0, 0, 0, 0, 0, 0, 0, 0, 0, 0, 0, 0, 0,
       0, 0, 0, 0, 0, 0, 0, 0, 0, 0, 0, 0, 0, 0, 0, 0,
       0, 0, 0, 0, 0, 0, 0, 0, 0, 0, 0, 0, 0, 0, 0, 0,
       0, 0, 0, 0, 0, 0, 0, 0, 0, 0, 0, 0, 0, 0, 0, 0,
       0, 0, 2, 2, 2, 2, 2, 2, 2, 2, 2, 2, 2, 2, 2, 2,
       2, 2, 2, 2, 2, 2, 2, 2, 2, 2, 2, 2, 2, 2, 2, 2,
       3, 3, 3, 3, 3, 3, 3, 3, 3, 3, 3, 3, 3, 3, 3, 3,
       4, 4, 4, 4, 0, 0, 0, 0, 0, 0, 0, 0, 0, 0, 0, 0 >>

\* A width of 1 for every byte, as `buf[0] as char` alone would have it.
utf8_char_width_latin1(first_byte) == 1

utf8_char_width(first_byte) == UTF8_CHAR_WIDTH[first_byte + 1]

\* String::from_utf8 accepts b (RFC 3629, as std validates it).
RECURSIVE Utf8Valid(_)
Utf8Valid(b) ==
    IF b = <<>> THEN TRUE
    ELSE LET x == b[1]
             w == utf8_char_width(x)
             cont(i) == b[i] \in 128..191
             second == CASE x = 224 -> 160..191
                         [] x = 237 -> 128..159
                         [] x = 240 -> 144..191
                         [] x = 244 -> 128..143
                         [] OTHER -> 128..191
         IN  /\ w >= 1
             /\ Len(b) >= w
             /\ w >= 2 => b[2] \in second
             /\ w >= 3 => cont(3)
             /\ w >= 4 => cont(4)
             /\ Utf8Valid(Drop(b, w))

\* from_le_bytes whatever the endianness.
FromBytesLittleEndian(buf, e) == Reverse(buf)

\* from_be_bytes whatever the endianness.
FromBytesBigEndian(buf, e) == buf

\* from_be_bytes / from_le_bytes of the buffer read, as digits.
FromBytes(buf, e) == IF e = "BigEndian" THEN buf ELSE Reverse(buf)

\* read_padding_of taking the remainder itself for the padding.
read_padding_remainder(p, alignment) == BitAnd(p, alignment - 1)

\* The padding read_padding_of asks for at position p before a value of
\* width alignment: p & (alignment - 1), then alignment - n.
read_padding_amount(p, alignment) ==
    LET rem_mask == alignment - 1
        n == BitAnd(p, rem_mask)
    IN  IF n = 0 THEN 0 ELSE alignment - n

(***************************************************************************)
(* The decoder as a step machine: a frame is a call still to run.          *)
(***************************************************************************)
Unit == P("unit")
F(op, s, n, i) == [op |-> op, s |-> s, n |-> n, i |-> i]
Fr(op) == F(op, Unit, 0, 0)

\* The calls deserialize_<s.k> makes, in order.
RECURSIVE Expand(_)
Expand(s) ==
    CASE s.k \in IntKinds ->
            (IF Width(s.k) > 1 THEN <<F("read_padding_of", s, 0, 0)>> ELSE <<>>)
            \o <<F("read_size_of", s, 0, 0), F("read_value", s, 0, 0)>>
      [] s.k = "bool" -> Expand(P("u8")) \o <<Fr("bool")>>
      [] s.k = "char" -> <<Fr("char")>>
      [] s.k = "string" -> Expand(P("u32")) \o <<Fr("read_vec"), Fr("read_string")>>
      [] s.k = "bytes" -> Expand(P("u32")) \o <<Fr("read_vec")>>
      [] s.k = "unit" -> <<Fr("unit")>>
      [] s.k = "seq" -> Expand(P("u32")) \o <<F("seq", s, 0, 0)>>
      [] s.k \in TupleKinds -> <<F("access", s, Len(s.fs), 0)>>
      [] s.k = "newtype_struct" -> Expand(s.fs[1])
      [] s.k = "enum" -> Expand(P("u32")) \o <<F("variant", s, 0, 0)>>
      [] s.k \in UnsupportedKinds -> <<F("unsupported", s, 0, 0)>>

\* [u8; ENCAPSULATION_HEADER_SIZE]
HeaderShape == TupleOf([i \in 1..ENCAPSULATION_HEADER_SIZE |-> P("u8")])

\* An Access handing out the fields from the last to the first.
ElemShapeReversed(s, i) ==
    IF s.k = "seq" THEN s.fs[1] ELSE s.fs[Len(s.fs) - i + 1]

\* The shape of the i-th element an Access hands out.
ElemShape(s, i) == IF s.k = "seq" THEN s.fs[1] ELSE s.fs[i]

\* The buffers a streaming source produces for a read of n bytes: the
\* first and the last byte vary, the bytes between are zero.
Gen(n) ==
    IF n = 1 THEN {<<a>> : a \in SampleBytes}
    ELSE {[i \in 1..n |-> IF i = 1 THEN a ELSE IF i = n THEN b ELSE 0]
          : a, b \in SampleBytes}

\* A read that, for a buffer of at most eight bytes (a fixed-width value),
\* takes what the source has and leaves the rest of the buffer as it was,
\* zeroed, without an error; a longer buffer still fails at the end of input.
ReadLenient(n) ==
    LET avail == Len(reader)
    IN  IF n <= avail
        THEN {[ok |-> TRUE, buf |-> Take(reader, n), reader |-> Drop(reader, n),
               more |-> more, taken |-> n]}
        ELSE IF n <= avail + more
        THEN {[ok |-> TRUE, buf |-> reader \o t, reader |-> <<>>,
               more |-> more - (n - avail), taken |-> n]
              : t \in Gen(n - avail)}
        ELSE IF n <= 8
        THEN {[ok |-> TRUE, buf |-> reader \o Zeros(n - avail), reader |-> <<>>,
               more |-> 0, taken |-> avail]}
        ELSE {[ok |-> FALSE, buf |-> <<>>, reader |-> <<>>,
               more |-> 0, taken |-> avail + more]}

\* reader.read_exact on n bytes: every outcome the source allows.  A failed
\* read (UnexpectedEof) may have taken any number of bytes short of n.
ReadExact(n) ==
    LET avail == Len(reader)
        full == IF n > avail + more THEN {}
                ELSE IF n <= avail
                THEN {[ok |-> TRUE, buf |-> Take(reader, n),
                       reader |-> Drop(reader, n), more |-> more, taken |-> n]}
                ELSE {[ok |-> TRUE, buf |-> reader \o t, reader |-> <<>>,
                       more |-> more - (n - avail), taken |-> n]
                      : t \in Gen(n - avail)}
        short == IF n > avail + more \/ (more > 0 /\ n > 0)
                 THEN {[ok |-> FALSE, buf |-> <<>>,
                        reader |-> Drop(reader, IF k < avail THEN k ELSE avail),
                        more |-> 0, taken |-> k]
                       : k \in 0..(IF n - 1 < avail + more THEN n - 1 ELSE avail + more)}
                 ELSE {}
    IN  full \cup short

(***************************************************************************)
(* Steps of the Deserializer.                                              *)
(***************************************************************************)
Top == Head(stack)
TopVal == vals[Len(vals)]
Running(op) == status = "run" /\ stack # <<>> /\ Top.op = op

\* An error dropped where it arose: a default value stands in for the
\* failed item and the traversal goes on.
FailRecovered(e) ==
    /\ status' = status
    /\ ret' = ret
    /\ stack' = Tail(stack)
    /\ vals' = Append(vals, <<0>>)

\* An error returned through every `?` up to the caller.
Fail(e) ==
    /\ status' = "err"
    /\ ret' = e
    /\ stack' = <<>>
    /\ vals' = <<>>

\* A source that returned an outcome r of read_exact.
Took(r) ==
    /\ reader' = r.reader
    /\ more' = r.more
    /\ consumed' = consumed + r.taken

NoPrim == [w |-> 0, p0 |-> 0, c0 |-> 0, padded |-> 0, p1 |-> 0, c1 |-> 0,
           done |-> FALSE, byte |-> -1]

\* read_padding_of::<T>()
ReadPaddingOf ==
    /\ Running("read_padding_of")
    /\ LET alignment == Width(Top.s.k)
           amt == read_padding_amount(pos, alignment)
           started == [NoPrim EXCEPT !.w = alignment, !.p0 = pos, !.c0 = consumed]
       IN  IF amt = 0
           THEN /\ stack' = Tail(stack)
                /\ prim' = started
                /\ UNCHANGED <<status, ret, vals, reader, more, consumed, pos, total>>
           ELSE /\ pos' = pos + amt
                /\ IF LimitExceeded(call.limit, total, amt)
                   THEN /\ Fail(Err("SizeLimit"))
                        /\ prim' = started
                        /\ UNCHANGED <<reader, more, consumed, total>>
                   ELSE /\ total' = (IF call.limit.bounded THEN total + amt ELSE total)
                        /\ \E r \in ReadExact(amt) :
                              /\ Took(r)
                              /\ prim' = [started EXCEPT !.padded = r.taken]
                              /\ IF r.ok
                                 THEN /\ stack' = Tail(stack)
                                      /\ UNCHANGED <<status, ret, vals>>
                                 ELSE Fail(Err("Io"))
    /\ UNCHANGED <<call, sink, capacity, endianness>>

\* read_size_of::<T>()
ReadSizeOf ==
    /\ Running("read_size_of")
    /\ LET size == Width(Top.s.k)
       IN  /\ pos' = pos + size
           /\ prim' = (IF size = 1
                       THEN [NoPrim EXCEPT !.w = 1, !.p0 = pos, !.c0 = consumed]
                       ELSE prim)
           /\ IF LimitExceeded(call.limit, total, size)
              THEN /\ Fail(Err("SizeLimit"))
                   /\ UNCHANGED total
              ELSE /\ total' = (IF call.limit.bounded THEN total + size ELSE total)
                   /\ stack' = Tail(stack)
                   /\ UNCHANGED <<status, ret, vals>>
    /\ UNCHANGED <<call, sink, capacity, reader, more, consumed, endianness>>

\* The rest of deserialize_u8 .. deserialize_f64: read_exact, from_be_bytes
\* or from_le_bytes, visit.
ReadValue ==
    /\ Running("read_value")
    /\ \E r \in ReadExact(Width(Top.s.k)) :
          /\ Took(r)
          /\ IF r.ok
             THEN /\ vals' = Append(vals, FromBytes(r.buf, endianness))
                  /\ stack' = Tail(stack)
                  /\ prim' = [prim EXCEPT !.p1 = pos, !.c1 = consumed + r.taken,
                                          !.done = TRUE]
                  /\ UNCHANGED <<status, ret>>
             ELSE /\ Fail(Err("Io"))
                  /\ UNCHANGED prim
    /\ UNCHANGED <<call, sink, capacity, pos, endianness, total>>

\* deserialize_bool taking every nonzero byte for true.
BoolOfNonZero(value) == IF value = 0 THEN Ok(FALSE) ELSE Ok(TRUE)

\* The value deserialize_bool makes of the u8 it decoded.
BoolOf(value) ==
    CASE value = 1 -> Ok(TRUE)
      [] value = 0 -> Ok(FALSE)
      [] OTHER -> ErrByte("InvalidBoolEncoding", value)

\* deserialize_bool, after its u8.
DeserializeBool ==
    /\ Running("bool")
    /\ LET r == BoolOf(TopVal[1])
       IN  IF r.tag = "Ok"
           THEN /\ vals' = Append(Take(vals, Len(vals) - 1), r.val)
                /\ stack' = Tail(stack)
                /\ UNCHANGED <<status, ret>>
           ELSE Fail(r)
    /\ UNCHANGED <<call, sink, capacity, reader, more, consumed, pos, endianness, total, prim>>

\* deserialize_char
DeserializeChar ==
    /\ Running("char")
    /\ \E r \in ReadExact(1) :
          /\ Took(r)
          /\ prim' = [NoPrim EXCEPT !.byte = IF r.ok THEN r.buf[1] ELSE -1]
          /\ IF ~r.ok
             THEN /\ Fail(Err("Io"))
                  /\ UNCHANGED <<pos, total>>
             ELSE LET width == utf8_char_width(r.buf[1])
                  IN  IF width # 1
                      THEN /\ Fail(Err("InvalidCharEncoding"))
                           /\ UNCHANGED <<pos, total>>
                      ELSE /\ pos' = pos + width
                           /\ IF LimitExceeded(call.limit, total, width)
                              THEN /\ Fail(Err("SizeLimit"))
                                   /\ UNCHANGED total
                              ELSE /\ total' = (IF call.limit.bounded
                                                THEN total + width ELSE total)
                                   /\ vals' = Append(vals, r.buf[1])
                                   /\ stack' = Tail(stack)
                                   /\ UNCHANGED <<status, ret>>
    /\ UNCHANGED <<call, sink, capacity, endianness>>

\* read_vec reading its bytes without read_size.
ReadVecUncounted ==
    /\ Running("read_vec")
    /\ \E r \in ReadExact(ToNat(TopVal)) :
          /\ Took(r)
          /\ IF r.ok
             THEN /\ vals' = Append(Take(vals, Len(vals) - 1), r.buf)
                  /\ stack' = Tail(stack)
                  /\ UNCHANGED <<status, ret>>
             ELSE Fail(Err("Io"))
    /\ UNCHANGED <<call, sink, capacity, pos, total, endianness, prim>>

\* read_vec, after its length.
ReadVec ==
    /\ Running("read_vec")
    /\ LET len == ToNat(TopVal)
       IN  /\ pos' = pos + len
           /\ IF LimitExceeded(call.limit, total, len)
              THEN /\ Fail(Err("SizeLimit"))
                   /\ UNCHANGED <<reader, more, consumed, total>>
              ELSE /\ total' = (IF call.limit.bounded THEN total + len ELSE total)
                   /\ \E r \in ReadExact(len) :
                         /\ Took(r)
                         /\ IF r.ok
                            THEN /\ vals' = Append(Take(vals, Len(vals) - 1), r.buf)
                                 /\ stack' = Tail(stack)
                                 /\ UNCHANGED <<status, ret>>
                            ELSE Fail(Err("Io"))
    /\ UNCHANGED <<call, sink, capacity, endianness, prim>>

\* A pop that removes the last byte only when it is the NUL terminator.
pop_nul(v) == IF v # <<>> /\ v[Len(v)] = 0 THEN Take(v, Len(v) - 1) ELSE v

\* Vec::pop: the vector without its last element, if it has one.
pop(v) == IF v = <<>> THEN v ELSE Take(v, Len(v) - 1)

\* read_string insisting on a terminator byte to pop.
ReadStringTerminated ==
    /\ Running("read_string")
    /\ LET v == TopVal
       IN  IF v # <<>> /\ Utf8Valid(pop(v))
           THEN /\ vals' = Append(Take(vals, Len(vals) - 1), pop(v))
                /\ stack' = Tail(stack)
                /\ UNCHANGED <<status, ret>>
           ELSE Fail(Err("InvalidUtf8Encoding"))
    /\ UNCHANGED <<call, sink, capacity, reader, more, consumed, pos, endianness, total, prim>>

\* read_string, after read_vec: pop the terminator, String::from_utf8.
ReadString ==
    /\ Running("read_string")
    /\ LET v == TopVal
           popped == pop(v)
       IN  IF Utf8Valid(popped)
           THEN /\ vals' = Append(Take(vals, Len(vals) - 1), popped)
                /\ stack' = Tail(stack)
                /\ UNCHANGED <<status, ret>>
           ELSE Fail(Err("InvalidUtf8Encoding"))
    /\ UNCHANGED <<call, sink, capacity, reader, more, consumed, pos, endianness, total, prim>>

\* deserialize_seq handing deserialize_tuple one element less than the count.
DeserializeSeqOneLess ==
    /\ Running("seq")
    /\ stack' = <<F("access", Top.s,
                    IF ToNat(TopVal) > 0 THEN ToNat(TopVal) - 1 ELSE 0, 0)>>
                 \o Tail(stack)
    /\ vals' = Take(vals, Len(vals) - 1)
    /\ UNCHANGED <<status, call, ret, sink, capacity, reader, more, consumed, pos,
                   endianness, total, prim>>

\* deserialize_seq, after its length: deserialize_tuple(len as usize).
DeserializeSeq ==
    /\ Running("seq")
    /\ stack' = <<F("access", Top.s, ToNat(TopVal), 0)>> \o Tail(stack)
    /\ vals' = Take(vals, Len(vals) - 1)
    /\ UNCHANGED <<status, call, ret, sink, capacity, reader, more, consumed, pos,
                   endianness, total, prim>>

\* Access::next_element_seed, called by the visitor until it has its
\* elements; then visit_seq returns the composite.
NextElementSeed ==
    /\ Running("access")
    /\ IF Top.n > 0
       THEN /\ stack' = Expand(ElemShape(Top.s, Top.i + 1))
                        \o <<[Top EXCEPT !.n = Top.n - 1, !.i = Top.i + 1]>>
                        \o Tail(stack)
            /\ UNCHANGED vals
       ELSE /\ stack' = Tail(stack)
            /\ vals' = Append(Take(vals, Len(vals) - Top.i), LastN(vals, Top.i))
    /\ UNCHANGED <<status, call, ret, sink, capacity, reader, more, consumed, pos,
                   endianness, total, prim>>

\* The index taken as counting the variants from one.
VariantOfOneBased(s, idx) == s.fs[IF idx = 0 THEN 1 ELSE idx]

\* The variant the seed makes of idx.into_deserializer(): indices count
\* the declared variants from zero.
VariantOf(s, idx) == s.fs[idx + 1]

\* EnumAccess::variant_seed, after its u32 index, and the VariantAccess
\* call the visitor makes for the variant.
VariantSeed ==
    /\ Running("variant")
    /\ LET idx == ToNat(TopVal)
           rest == Take(vals, Len(vals) - 1)
       IN  IF idx >= Len(Top.s.fs)
           THEN Fail(Err("Message"))
           ELSE LET v == VariantOf(Top.s, idx)
                    build == F("enum", Top.s, idx, 0)
                IN  /\ stack' =
                          (CASE v.k = "unit_variant" -> <<>>
                             [] v.k = "newtype_variant" -> Expand(v.fs[1])
                             [] OTHER -> <<F("access", v, Len(v.fs), 0)>>)
                          \o <<IF v.k = "newtype_variant"
                                THEN [build EXCEPT !.i = 1] ELSE build>>
                          \o Tail(stack)
                    /\ vals' = (IF v.k = "unit_variant" THEN Append(rest, <<>>)
                                ELSE rest)
                    /\ UNCHANGED <<status, ret>>
    /\ UNCHANGED <<call, sink, capacity, reader, more, consumed, pos, endianness, total, prim>>

\* The visitor of deserialize_enum returns the variant it built.
VisitEnum ==
    /\ Running("enum")
    /\ vals' = Append(Take(vals, Len(vals) - 1),
                      [idx |-> Top.n,
                       payload |-> IF Top.i = 1 THEN <<TopVal>> ELSE TopVal])
    /\ stack' = Tail(stack)
    /\ UNCHANGED <<status, call, ret, sink, capacity, reader, more, consumed, pos,
                   endianness, total, prim>>

\* deserialize_unit
DeserializeUnit ==
    /\ Running("unit")
    /\ vals' = Append(vals, <<>>)
    /\ stack' = Tail(stack)
    /\ UNCHANGED <<status, call, ret, sink, capacity, reader, more, consumed, pos,
                   endianness, total, prim>>

\* The refusal made only after a one-byte tag was asked of the source.
UnsupportedAfterTag ==
    /\ Running("unsupported")
    /\ \E r \in ReadExact(1) : Took(r)
    /\ Fail(Err(IF Top.s.k = "any" THEN "DeserializeAnyNotSupported"
                ELSE "TypeNotSupported"))
    /\ UNCHANGED <<call, sink, capacity, pos, endianness, total, prim>>

\* deserialize_any, deserialize_option, deserialize_map,
\* deserialize_identifier, deserialize_ignored_any
Unsupported ==
    /\ Running("unsupported")
    /\ Fail(Err(IF Top.s.k = "any" THEN "DeserializeAnyNotSupported"
                ELSE "TypeNotSupported"))
    /\ UNCHANGED <<call, sink, capacity, reader, more, consumed, pos, endianness, total, prim>>

\* deserialize_from checking the header and leaving the endianness the
\* Deserializer was built with.
TryFromOnly ==
    /\ Running("try_from")
    /\ LET v == [i \in 1..ENCAPSULATION_HEADER_SIZE |-> TopVal[i][1]]
           f == TryFrom(v)
       IN  IF f = "InvalidEncapsulation"
           THEN Fail(Err("InvalidEncapsulation"))
           ELSE /\ vals' = Take(vals, Len(vals) - 1)
                /\ stack' = Tail(stack)
                /\ UNCHANGED <<status, ret>>
    /\ UNCHANGED <<call, sink, capacity, reader, more, consumed, pos, total, prim,
                   endianness>>

\* deserialize_from: RepresentationFormat::try_from(v) and
\* set_representation_format.
SetRepresentationFormat ==
    /\ Running("try_from")
    /\ LET v == [i \in 1..ENCAPSULATION_HEADER_SIZE |-> TopVal[i][1]]
           f == TryFrom(v)
       IN  IF f = "InvalidEncapsulation"
           THEN /\ Fail(Err("InvalidEncapsulation"))
                /\ UNCHANGED endianness
           ELSE /\ endianness' = FormatEndianness(f)
                /\ vals' = Take(vals, Len(vals) - 1)
                /\ stack' = Tail(stack)
                /\ UNCHANGED <<status, ret>>
    /\ UNCHANGED <<call, sink, capacity, reader, more, consumed, pos, total, prim>>

\* reset_pos leaving the position where the header ended.
reset_pos_kept(p) == p

\* reset_pos: the position it sets.
reset_pos(p) == 0

\* A reset of the position that starts the size limit's count again too.
ResetPosAndTotal ==
    /\ Running("reset_pos")
    /\ pos' = 0
    /\ total' = 0
    /\ stack' = Tail(stack)
    /\ UNCHANGED <<status, call, ret, sink, capacity, reader, more, consumed, endianness,
                   vals, prim>>

ResetPos ==
    /\ Running("reset_pos")
    /\ pos' = reset_pos(pos)
    /\ stack' = Tail(stack)
    /\ UNCHANGED <<status, call, ret, sink, capacity, reader, more, consumed, endianness,
                   total, vals, prim>>

\* The top-level call returns the value.
Return ==
    /\ Running("return")
    /\ status' = "ok"
    /\ ret' = Ok(TopVal)
    /\ stack' = <<>>
    /\ vals' = <<>>
    /\ UNCHANGED <<call, sink, capacity, reader, more, consumed, pos, endianness, total, prim>>

(***************************************************************************)
(* The types and sources the calls are made with.                          *)
(***************************************************************************)
U8 == P("u8")
U16 == P("u16")
U32 == P("u32")
U64 == P("u64")
F64 == P("f64")
Str == P("string")

\* The types values are encoded from and decoded to.
Shapes ==
    { U8, P("i8"), U16, P("i16"), U32, P("i32"), P("f32"), U64, P("i64"), F64,
      P("bool"), P("char"), Str, P("bytes"), Unit,
      SeqOf(U8), SeqOf(U64), SeqOf(Str),
      TupleOf(<<U8, U16>>), TupleOf(<<U8, U32>>), TupleOf(<<U8, U64>>),
      TupleOf(<<U16, U64>>), TupleOf(<<U16, U8, U64>>), TupleOf(<<Str, U64>>),
      TupleOf(<<P("bool"), P("bool")>>),
      StructOf(<<P("bool"), U16, P("char"), U32>>),
      TupleStructOf(<<U8, Str>>),
      NewtypeOf(SeqOf(StructOf(<<F64, F64>>))),
      EnumOf(<<Variant("unit_variant", <<>>), Variant("newtype_variant", <<U16>>),
               Variant("tuple_variant", <<U8, U32>>),
               Variant("struct_variant", <<U64>>)>>) }

\* The types decoded from a streaming source.
StreamShapes ==
    { U8, P("i8"), U16, P("i16"), U32, P("i32"), P("f32"), U64, P("i64"), F64,
      P("bool"), P("char"), Str, P("bytes"), Unit,
      SeqOf(U8), SeqOf(U16),
      TupleOf(<<U8, U16>>), TupleOf(<<U8, U32>>), TupleOf(<<U8, U64>>),
      TupleOf(<<U16, U64>>), TupleOf(<<U16, U8, U64>>), TupleOf(<<Str, U64>>),
      TupleOf(<<P("bool"), P("bool")>>),
      TupleStructOf(<<U8, Str>>),
      EnumOf(<<Variant("unit_variant", <<>>), Variant("newtype_variant", <<U16>>),
               Variant("tuple_variant", <<U8, U32>>),
               Variant("struct_variant", <<U64>>)>>) }

\* The types the decoder refuses.
UnsupportedShapes ==
    { OptionOf(U8), P("map"), P("identifier"), P("ignored_any"), P("any"),
      TupleOf(<<U8, OptionOf(U8)>>) }

\* The writers serialize_into is given: what they hold before the call.
Writers == {<<>>, <<170>>}

Max(S) == CHOOSE x \in S : \A y \in S : y <= x

\* The position after the longest value of shape s the model holds, from
\* position p: the length of the streams the decoder is run on.  A stream
\* holds one byte where a type the decoder refuses is asked for.
RECURSIVE MaxEnd(_, _)
RECURSIVE MaxEndFields(_, _)
MaxEndFields(fs, p) ==
    IF fs = <<>> THEN p ELSE MaxEndFields(Tail(fs), MaxEnd(Head(fs), p))

MaxEnd(s, p) ==
    CASE s.k \in IntKinds -> p + PaddingOf(p, Width(s.k)) + Width(s.k)
      [] s.k \in {"bool", "char"} -> p + 1
      [] s.k = "string" -> p + PaddingOf(p, 4) + 4 + MaxStr + 1
      [] s.k = "bytes" -> p + PaddingOf(p, 4) + 4 + MaxStr
      [] s.k = "seq" ->
            MaxEndFields([i \in 1..MaxSeq |-> s.fs[1]], p + PaddingOf(p, 4) + 4)
      [] s.k \in TupleKinds -> MaxEndFields(s.fs, p)
      [] s.k = "newtype_struct" -> MaxEnd(s.fs[1], p)
      [] s.k = "enum" ->
            Max({MaxEndFields(s.fs[i].fs, p + PaddingOf(p, 4) + 4)
                 : i \in 1..Len(s.fs)})
      [] s.k \in UnsupportedKinds -> p + 1
      [] OTHER -> p

NoCall == [op |-> "none", shape |-> Unit, value |-> <<>>, format |-> "CdrBe",
           limit |-> Infinite, w0 |-> <<>>, bytes |-> <<>>, prev |-> None]

Init ==
    /\ status = "idle"
    /\ call = NoCall
    /\ ret = None
    /\ sink = <<>>
    /\ capacity = 0
    /\ reader = <<>>
    /\ more = 0
    /\ consumed = 0
    /\ pos = 0
    /\ endianness = "BigEndian"
    /\ total = 0
    /\ stack = <<>>
    /\ vals = <<>>
    /\ prim = NoPrim

Decoder == <<reader, more, consumed, pos, endianness, total, stack, vals, prim>>

(***************************************************************************)
(* The calls of the top-level API (lib.rs, de.rs).                         *)
(***************************************************************************)
CalcSerializedSize ==
    /\ status = "idle"
    /\ \E s \in Shapes : \E v \in ValuesOf(s) :
          /\ call' = [NoCall EXCEPT !.op = "calc_serialized_size", !.shape = s,
                                    !.value = v]
          /\ ret' = Ok(calc_serialized_size(s, v))
    /\ status' = "ok"
    /\ UNCHANGED <<sink, capacity, Decoder>>

CalcSerializedSizeBounded ==
    /\ status = "idle"
    /\ \E s \in Shapes : \E v \in ValuesOf(s) : \E max \in 0..MaxLimit :
          /\ call' = [NoCall EXCEPT !.op = "calc_serialized_size_bounded",
                                    !.shape = s, !.value = v,
                                    !.limit = Bounded(max)]
          /\ ret' = calc_serialized_size_bounded(s, v, max)
    /\ status' = "ok"
    /\ UNCHANGED <<sink, capacity, Decoder>>

Serialize ==
    /\ status = "idle"
    /\ \E s \in Shapes : \E v \in ValuesOf(s) :
       \E f \in RepresentationFormat : \E limit \in Limits :
          LET r == serialize(s, v, f, limit)
          IN  /\ call' = [NoCall EXCEPT !.op = "serialize", !.shape = s,
                                        !.value = v, !.format = f,
                                        !.limit = limit]
              /\ ret' = r.ret
              /\ capacity' = r.capacity
    /\ status' = "ok"
    /\ UNCHANGED <<sink, Decoder>>

SerializeInto ==
    /\ status = "idle"
    /\ \E w0 \in Writers : \E s \in Shapes : \E v \in ValuesOf(s) :
       \E f \in RepresentationFormat : \E limit \in Limits :
          LET r == serialize_into(w0, s, v, f, limit)
          IN  /\ call' = [NoCall EXCEPT !.op = "serialize_into", !.shape = s,
                                        !.value = v, !.format = f,
                                        !.limit = limit, !.w0 = w0]
              /\ ret' = r.ret
              /\ sink' = r.writer
    /\ status' = "ok"
    /\ UNCHANGED <<capacity, Decoder>>

\* Deserializer::new and the calls deserialize_from queues.
StartDecoder(bytes, n, f, frames) ==
    /\ status' = "run"
    /\ ret' = None
    /\ reader' = bytes
    /\ more' = n
    /\ consumed' = 0
    /\ pos' = 0
    /\ endianness' = FormatEndianness(f)
    /\ total' = 0
    /\ stack' = frames
    /\ vals' = <<>>
    /\ prim' = NoPrim
    /\ UNCHANGED <<sink, capacity>>

\* deserialize_from resetting the position before it reads the header.
FramesFromResetFirst(s) ==
    <<Fr("reset_pos")>> \o Expand(HeaderShape) \o <<Fr("try_from")>> \o Expand(s)
    \o <<Fr("return")>>

FramesFrom(s) ==
    Expand(HeaderShape) \o <<Fr("try_from"), Fr("reset_pos")>> \o Expand(s)
    \o <<Fr("return")>>

\* deserialize(bytes) on the bytes serialize returned.
Deserialize ==
    /\ status = "ok"
    /\ call.op = "serialize"
    /\ ret.tag = "Ok"
    /\ ~call.limit.bounded
    /\ call' = [call EXCEPT !.op = "deserialize"]
    /\ StartDecoder(ret.val, 0, "CdrBe", FramesFrom(call.shape))

\* The types whose encodings are decoded cut short: a cut can fall in the
\* header, in padding, in a length prefix, in a count, in an index and in a
\* value.
PrefixShapes ==
    { Unit, U8, U16, U64, P("bool"), P("char"), Str, SeqOf(U8), SeqOf(U64),
      TupleOf(<<U8, U32>>), TupleOf(<<U16, U8, U64>>), TupleStructOf(<<U8, Str>>),
      EnumOf(<<Variant("unit_variant", <<>>), Variant("newtype_variant", <<U16>>),
               Variant("tuple_variant", <<U8, U32>>),
               Variant("struct_variant", <<U64>>)>>) }

\* deserialize(bytes), that is deserialize_from(bytes, Infinite), on a
\* strict prefix of the bytes serialize returned.
DeserializePrefix ==
    /\ status = "ok"
    /\ call.op = "serialize"
    /\ ret.tag = "Ok"
    /\ ~call.limit.bounded
    /\ call.shape \in PrefixShapes
    /\ \E k \in 0..(Len(ret.val) - 1) :
          /\ call' = [call EXCEPT !.op = "deserialize_from",
                                  !.bytes = Take(ret.val, k), !.prev = ret]
          /\ StartDecoder(Take(ret.val, k), 0, "CdrBe", FramesFrom(call.shape))

\* deserialize_from(bytes, Bounded(max)) on the bytes
\* serialize(value, format, Bounded(max)) returned, with the same max.
DeserializeBounded ==
    /\ status = "ok"
    /\ call.op = "serialize"
    /\ ret.tag = "Ok"
    /\ call.limit.bounded
    /\ call' = [call EXCEPT !.op = "deserialize_from", !.bytes = ret.val,
                            !.prev = ret]
    /\ StartDecoder(ret.val, 0, "CdrBe", FramesFrom(call.shape))

\* The types payloads are decoded to with and without a header.
FramedShapes ==
    { Unit, U8, P("bool"), P("char"), U16, U64, Str, SeqOf(U16),
      TupleOf(<<U8, U64>>), TupleOf(<<U16, U8, U64>>),
      EnumOf(<<Variant("unit_variant", <<>>), Variant("newtype_variant", <<U16>>),
               Variant("tuple_variant", <<U8, U32>>),
               Variant("struct_variant", <<U64>>)>>) }

\* The payloads given for a type: well-formed, malformed and short ones.
\* The first, the fourth and the last byte vary, the others are zero.
PayloadsOf(s) ==
    LET top == MaxEnd(s, 0)
    IN  {[i \in 1..n |-> IF i = 1 THEN a ELSE IF i = n THEN b
                         ELSE IF i = 4 THEN c ELSE 0]
         : n \in {m \in 0..top : m \in {0, 1, 4, 5, 6} \/ m >= top - 1},
           a \in {0, 1, 2, 195}, b \in {0, 1, 2, 195}, c \in {0, 2}}

\* The reserved field of the headers given.
Reserved == {<<0, 0>>, <<1, 2>>}

\* deserialize_data(P, F)
DeserializeDataPayload ==
    /\ status = "idle"
    /\ \E s \in FramedShapes : \E b \in PayloadsOf(s) :
       \E f \in RepresentationFormat :
          /\ call' = [NoCall EXCEPT !.op = "deserialize_data", !.shape = s,
                                    !.format = f, !.bytes = b]
          /\ StartDecoder(b, 0, f, Expand(s) \o <<Fr("return")>>)

\* deserialize(header of F ++ P), after deserialize_data(P, F) returned.
DeserializeFramed ==
    /\ status \in {"ok", "err"}
    /\ call.op = "deserialize_data"
    /\ \E r \in Reserved :
          LET b == <<0, FormatId(call.format)>> \o r \o call.bytes
          IN  /\ call' = [call EXCEPT !.op = "deserialize", !.bytes = b,
                                      !.prev = [ret |-> ret, pos |-> pos]]
              /\ StartDecoder(b, 0, "CdrBe", FramesFrom(call.shape))

\* deserialize_from(reader, size_limit) on a streaming source.
DeserializeFrom ==
    /\ status = "idle"
    /\ \E s \in StreamShapes \cup UnsupportedShapes : \E limit \in Limits :
          /\ call' = [NoCall EXCEPT !.op = "deserialize_from", !.shape = s,
                                    !.limit = limit]
          /\ StartDecoder(<<>>, ENCAPSULATION_HEADER_SIZE + MaxEnd(s, 0), "CdrBe",
                          FramesFrom(s))

\* deserialize_data_from(reader, representation_format, size_limit)
DeserializeDataFrom ==
    /\ status = "idle"
    /\ \E s \in StreamShapes \cup UnsupportedShapes :
       \E f \in RepresentationFormat : \E limit \in Limits :
          /\ call' = [NoCall EXCEPT !.op = "deserialize_data_from", !.shape = s,
                                    !.limit = limit]
          /\ StartDecoder(<<>>, MaxEnd(s, 0), f, Expand(s) \o <<Fr("return")>>)

\* The types deserialize_data is run on: integers of each width at the
\* positions 0, 1, 2 and 3.
DataShapes ==
    { U8, U16, U32, U64, P("i16"), P("i64"),
      TupleOf(<<U8, U16>>), TupleOf(<<U8, U32>>), TupleOf(<<U8, U64>>),
      TupleOf(<<U16, U32>>), TupleOf(<<U16, U8, U64>>),
      TupleOf(<<U8, U8, U8, U16>>), TupleOf(<<U8, U8, U8, U32>>) }

\* The fields of a primitive or of a composite of primitives.
FieldsOf(s) == IF s.k \in TupleKinds THEN s.fs ELSE <<s>>

\* The position after fields fs laid out from position p.
RECURSIVE LayoutEnd(_, _)
LayoutEnd(fs, p) ==
    IF fs = <<>> THEN p
    ELSE LET w == Width(Head(fs).k)
         IN  LayoutEnd(Tail(fs), p + ((w - (p % w)) % w) + w)

\* The byte slices deserialize_data is given for a type: n bytes in
\* arithmetic progression.
Slices(n) ==
    {[i \in 1..n |-> (a * i + b) % 256] : a \in {1, 37, 255}, b \in SampleBytes}

\* The slice b with the bytes of each value of fs reversed and the padding
\* left as it is.
RECURSIVE SwapValues(_, _, _)
SwapValues(fs, b, p) ==
    IF fs = <<>> THEN b
    ELSE LET w == Width(Head(fs).k)
             pad == (w - (p % w)) % w
         IN  Take(b, pad) \o Reverse(SubSeq(b, pad + 1, pad + w))
             \o SwapValues(Tail(fs), Drop(b, pad + w), p + pad + w)

\* deserialize_data(bytes, CdrBe)
DeserializeData ==
    /\ status = "idle"
    /\ \E s \in DataShapes : \E b \in Slices(LayoutEnd(FieldsOf(s), 0)) :
          /\ call' = [NoCall EXCEPT !.op = "deserialize_data", !.shape = s,
                                    !.bytes = b]
          /\ StartDecoder(b, 0, "CdrBe", Expand(s) \o <<Fr("return")>>)

\* deserialize_data(bytes', CdrLe) after deserialize_data(bytes, CdrBe)
\* returned, where bytes' is bytes with each value's bytes reversed.
DeserializeDataSwapped ==
    /\ status = "ok"
    /\ call.op = "deserialize_data"
    /\ call.format = "CdrBe"
    /\ LET b == SwapValues(FieldsOf(call.shape), call.bytes, 0)
       IN  /\ call' = [call EXCEPT !.format = "CdrLe", !.bytes = b,
                                   !.prev = [ret |-> ret, consumed |-> consumed,
                                             pos |-> pos, padded |-> prim.padded]]
           /\ StartDecoder(b, 0, "CdrLe", Expand(call.shape) \o <<Fr("return")>>)

Next ==
    \/ CalcSerializedSize
    \/ CalcSerializedSizeBounded
    \/ Serialize
    \/ SerializeInto
    \/ Deserialize
    \/ DeserializeFrom
    \/ DeserializeDataFrom
    \/ DeserializeData
    \/ DeserializeDataSwapped
    \/ ReadPaddingOf
    \/ ReadSizeOf
    \/ ReadValue
    \/ DeserializeBool
    \/ DeserializeChar
    \/ ReadVec
    \/ ReadString
    \/ DeserializeSeq
    \/ NextElementSeed
    \/ VariantSeed
    \/ VisitEnum
    \/ DeserializeUnit
    \/ Unsupported
    \/ SetRepresentationFormat
    \/ ResetPos
    \/ Return

Spec == Init /\ [][Next]_vars

\* The steps of a Deserializer on the types it decodes.
DecoderStep ==
    \/ ReadPaddingOf
    \/ ReadSizeOf
    \/ ReadValue
    \/ DeserializeBool
    \/ DeserializeChar
    \/ ReadVec
    \/ ReadString
    \/ DeserializeSeq
    \/ NextElementSeed
    \/ VariantSeed
    \/ VisitEnum
    \/ DeserializeUnit
    \/ SetRepresentationFormat
    \/ ResetPos
    \/ Return

\* The calls made on byte slices derived from what serialize returned.
NextSlices ==
    \/ Serialize
    \/ DeserializePrefix
    \/ DeserializeBounded
    \/ DeserializeDataPayload
    \/ DeserializeFramed
    \/ DecoderStep

SpecSlices == Init /\ [][NextSlices]_vars

(***************************************************************************)
(* Properties.                                                             *)
(***************************************************************************)
\* The bytes serialize returns for the value of the call, without a bound.
Serialized(f) == serialize(call.shape, call.value, f, Infinite).ret.val

\* The true size of the encoding of the value of the call: the header and
\* the payload with its padding.
TrueSize ==
    ENCAPSULATION_HEADER_SIZE + Len(Encode(call.shape, call.value, 0, "BigEndian"))

\* C1: calc_serialized_size(value) is the length of the byte vector
\* serialize(value, format, unbounded) returns, for each of the four formats.
C1_SizeEncodeAgreement ==
    (status = "ok" /\ call.op = "calc_serialized_size")
        => \A f \in RepresentationFormat : ret.val = Len(Serialized(f))

\* C2: when the true encoded size of the value exceeds max,
\* calc_serialized_size_bounded(value, max) returns the size-limit error,
\* never a size.
C2_BoundEnforcement ==
    (status = "ok" /\ call.op = "calc_serialized_size_bounded"
                   /\ TrueSize > call.limit.max)
        => ret = Err("SizeLimit")

\* C3: when serialize(value, format, bounded(max)) succeeds, the byte vector
\* it returns, header included, is at most max bytes long.
C3_SerializeWithinBound ==
    (status = "ok" /\ call.op = "serialize" /\ call.limit.bounded
                   /\ ret.tag = "Ok")
        => Len(ret.val) <= call.limit.max

\* The bound check of serialize_into fails for the call.
BoundCheckFails ==
    /\ call.limit.bounded
    /\ calc_serialized_size_bounded(call.shape, call.value, call.limit.max).tag
         = "Err"

\* C4: when serialize_into is given a bounded limit and the bound check
\* fails, it returns the size-limit error and the sink holds exactly what it
\* held before the call: no byte of the header or payload is written.
C4_NothingWrittenOnBoundFailure ==
    (status = "ok" /\ call.op = "serialize_into" /\ BoundCheckFails)
        => (ret = Err("SizeLimit") /\ sink = call.w0)

C4_Witness ==
    /\ status = "ok"
    /\ call.op = "serialize_into"
    /\ BoundCheckFails
    /\ call.limit.max >= ENCAPSULATION_HEADER_SIZE
    /\ call.w0 # <<>>
    /\ sink = call.w0

\* C5: deserialize(serialize(x, F, unbounded)) returns x for each of the
\* four formats: the call never fails, and the value it returns is the value
\* that was serialized.
C5_HeaderRoundTrip ==
    (call.op = "deserialize" /\ status # "run")
        => (status = "ok" /\ ret.tag = "Ok" /\ ret.val = call.value)

C5_Witness ==
    /\ call.op = "deserialize"
    /\ status = "ok"
    /\ call.format = "PlCdrLe"
    /\ call.shape.k = "newtype_struct"
    /\ Len(call.value) = 2
    /\ ret.tag = "Ok"

\* The id of each format, as the encapsulation header carries it.
HeaderIdOf(f) ==
    CASE f = "CdrBe" -> 0 [] f = "CdrLe" -> 1 [] f = "PlCdrBe" -> 2
      [] f = "PlCdrLe" -> 3

\* What serialize_into appended to the writer.
Written == Drop(sink, Len(call.w0))

\* C6: the first four bytes serialize_into writes are the id of the format
\* as a big-endian u16 and two zero bytes, for the little-endian formats
\* too, and the payload follows from offset 4, laid out from position 0.
C6_HeaderBytes ==
    (status = "ok" /\ call.op = "serialize_into" /\ ret.tag = "Ok")
        => /\ Take(sink, Len(call.w0)) = call.w0
           /\ Take(Written, 4) = <<0, HeaderIdOf(call.format), 0, 0>>
           /\ Drop(Written, 4)
                = Encode(call.shape, call.value, 0,
                         IF call.format \in {"CdrLe", "PlCdrLe"}
                         THEN "LittleEndian" ELSE "BigEndian")

C6_Witness ==
    /\ status = "ok"
    /\ call.op = "serialize_into"
    /\ ret.tag = "Ok"
    /\ call.format = "PlCdrLe"
    /\ Take(Written, 4) = <<0, 3, 0, 0>>
    /\ Len(Written) > 4

\* The header bytes try_from is about to be given.
HeaderRead == [i \in 1..ENCAPSULATION_HEADER_SIZE |-> TopVal[i][1]]

\* C7: the header is decoded from its bytes 0 and 1 alone, read as a
\* big-endian u16: 0, 1, 2, 3 select CdrBe, CdrLe, PlCdrBe, PlCdrLe, that
\* is, big, little, big, little endian, whatever bytes 2 and 3 hold; every
\* other id fails with InvalidEncapsulation, and no byte beyond the four of
\* the header has been or is consumed.
C7_HeaderDecoding ==
    [][Running("try_from") =>
         LET id == HeaderRead[1] * 256 + HeaderRead[2]
         IN  /\ consumed = ENCAPSULATION_HEADER_SIZE
             /\ consumed' = consumed
             /\ TryFrom(HeaderRead)
                  = (CASE id = 0 -> "CdrBe" [] id = 1 -> "CdrLe"
                       [] id = 2 -> "PlCdrBe" [] id = 3 -> "PlCdrLe"
                       [] OTHER -> "InvalidEncapsulation")
             /\ id \in {0, 2} => (status' = "run" /\ endianness' = "BigEndian")
             /\ id \in {1, 3} => (status' = "run" /\ endianness' = "LittleEndian")
             /\ id \notin 0..3 => (status' = "err"
                                   /\ ret' = Err("InvalidEncapsulation"))]_vars

C7_Witness ==
    /\ status = "err"
    /\ call.op = "deserialize_from"
    /\ ret = Err("InvalidEncapsulation")
    /\ consumed = ENCAPSULATION_HEADER_SIZE

\* C8: decoding a primitive of width w at position p0 consumes
\* (w - (p0 mod w)) mod w padding bytes (none for w = 1), then w value
\* bytes, and advances the position by padding + w; the bit mask of
\* read_padding_of gives the padding of the modulo formula.
C8_PaddingRule ==
    prim.done =>
        /\ prim.w \in {1, 2, 4, 8}
        /\ prim.padded = (prim.w - (prim.p0 % prim.w)) % prim.w
        /\ prim.w = 1 => prim.padded = 0
        /\ prim.c1 = prim.c0 + prim.padded + prim.w
        /\ prim.p1 = prim.p0 + prim.padded + prim.w
        /\ read_padding_amount(prim.p0, prim.w)
             = (prim.w - (prim.p0 % prim.w)) % prim.w

C8_Witness ==
    /\ prim.done
    /\ prim.w = 8
    /\ prim.p0 = 7
    /\ prim.padded = 1
    /\ prim.p1 = 16

\* The offset of the next byte of the source from the start of the payload.
PayloadOffset ==
    consumed - (IF call.op \in {"deserialize", "deserialize_from"}
                THEN ENCAPSULATION_HEADER_SIZE ELSE 0)

\* C9: when the value bytes of a primitive of width 2, 4 or 8 are about to
\* be read, the position counter and the offset of those bytes from the
\* start of the payload are multiples of the width.
C9_AlignmentInvariant ==
    (Running("read_value") /\ Width(Top.s.k) > 1)
        => (pos % Width(Top.s.k) = 0 /\ PayloadOffset % Width(Top.s.k) = 0)

C9_Witness ==
    /\ Running("read_value")
    /\ call.op = "deserialize_from"
    /\ Width(Top.s.k) = 8
    /\ PayloadOffset = 8
    /\ prim.padded = 7

\* C10: boolean decoding accepts the bytes 0 and 1 only: 0 gives false, 1
\* gives true, and every other byte b fails with InvalidBoolEncoding(b).
C10_BoolDecoding ==
    [][Running("bool") =>
         LET b == TopVal[1]
         IN  /\ b = 0 => (status' = "run" /\ vals'[Len(vals')] = FALSE)
             /\ b = 1 => (status' = "run" /\ vals'[Len(vals')] = TRUE)
             /\ b \notin {0, 1} => (status' = "err"
                                    /\ ret' = ErrByte("InvalidBoolEncoding", b))
             /\ \A x \in 2..255 : BoolOf(x) = ErrByte("InvalidBoolEncoding", x)]_vars

C10_Witness ==
    /\ status = "err"
    /\ call.shape.k = "bool"
    /\ ret = ErrByte("InvalidBoolEncoding", 2)

\* C11: character decoding reads exactly one byte b.  For b in 0x00..0x7F
\* the position advances by 1 and, unless the size limit refuses that byte
\* (SizeLimit), the character with code point b is returned; for b in
\* 0x80..0xFF, lead, continuation and invalid bytes alike, it fails with
\* InvalidCharEncoding.
C11_CharDecoding ==
    [][(Running("char") /\ prim'.byte >= 0) =>
         LET b == prim'.byte
         IN  /\ consumed' = consumed + 1
             /\ b \in 0..127 =>
                  /\ pos' = pos + 1
                  /\ IF LimitExceeded(call.limit, total, 1)
                     THEN status' = "err" /\ ret' = Err("SizeLimit")
                     ELSE status' = "run" /\ vals' = Append(vals, b)
             /\ b \in 128..255 =>
                  (status' = "err" /\ ret' = Err("InvalidCharEncoding"))
             /\ \A x \in 0..127 : utf8_char_width(x) = 1
             /\ \A x \in 128..255 : utf8_char_width(x) # 1]_vars

C11_Witness ==
    /\ status = "err"
    /\ call.shape.k = "char"
    /\ prim.byte = 195
    /\ ret = Err("InvalidCharEncoding")
    /\ consumed = 1

\* read_vec is about to read the bytes of a string of prefix n.
ReadingString(n) ==
    /\ Running("read_vec")
    /\ Len(stack) > 1
    /\ stack[2].op = "read_string"
    /\ ToNat(TopVal) = n

\* C12: for a length prefix n >= 1 followed by n bytes, string decoding
\* consumes exactly those n bytes, drops the last one whatever its value,
\* and returns the first n - 1 bytes when they are valid UTF-8
\* (InvalidUtf8Encoding otherwise); so the encoding len(s) + 1, the bytes of
\* s, 0x00 decodes to s under both endiannesses.
C12_StringDecoding ==
    [][/\ \A n \in 1..(MaxStr + 1) :
            (ReadingString(n) /\ status' = "run") =>
                /\ consumed' = consumed + n
                /\ pos' = pos + n
                /\ Len(vals'[Len(vals')]) = n
       /\ (Running("read_string") /\ Len(TopVal) >= 1) =>
            LET n == Len(TopVal)
                s == Take(TopVal, n - 1)
            IN  /\ consumed' = consumed
                /\ IF Utf8Valid(s)
                   THEN status' = "run" /\ vals'[Len(vals')] = s
                   ELSE status' = "err" /\ ret' = Err("InvalidUtf8Encoding")
       /\ (Running("return") /\ call.op = "deserialize" /\ call.shape = Str) =>
            /\ ret' = Ok(call.value)
            /\ Drop(Serialized(call.format), 4)
                 = EncodeInt(ToDigits(Len(call.value) + 1, 4), 0,
                             FormatEndianness(call.format))
                   \o call.value \o <<0>>]_vars

\* A two-byte string decoded from a little-endian stream of prefix 3.
C12_Witness ==
    /\ status = "ok"
    /\ call.op = "deserialize_data_from"
    /\ call.shape = Str
    /\ ret = Ok(<<1, 0>>)
    /\ consumed = 7
    /\ endianness = "LittleEndian"

\* The bytes deserialize was given: the header and the payload.
Wire == Serialized(call.format)

\* C13: sequence decoding reads a 4-byte-aligned u32 count c in the active
\* endianness, then decodes exactly c elements, each with its own
\* alignment, and returns them in wire order: the count read is the number
\* of elements asked of the Access, each call of next_element_seed decodes
\* the next element once, the composite is the elements in the order
\* decoded, and no byte beyond the last element is consumed.
C13_SequenceDecoding ==
    [][/\ Running("seq") =>
            /\ stack' = <<F("access", Top.s, ToNat(TopVal), 0)>> \o Tail(stack)
            /\ consumed' = consumed
       /\ (Running("access") /\ Top.s.k = "seq") =>
            /\ consumed' = consumed
            /\ IF Top.n > 0
               THEN LET e == Expand(Top.s.fs[1])
                    IN  /\ SubSeq(stack', 1, Len(e)) = e
                        /\ stack'[Len(e) + 1]
                             = F("access", Top.s, Top.n - 1, Top.i + 1)
                        /\ vals' = vals
               ELSE /\ Len(vals') = Len(vals) - Top.i + 1
                    /\ vals'[Len(vals')] = LastN(vals, Top.i)
       /\ (Running("return") /\ call.op = "deserialize_data_from") =>
            /\ call.shape = SeqOf(U8) => consumed = 4 + Len(TopVal)
            /\ call.shape = SeqOf(U16) => consumed = 4 + 2 * Len(TopVal)
       /\ (Running("return") /\ call.op = "deserialize"
                              /\ call.shape = SeqOf(U64)) =>
            LET c == ToNat(FromBytes(SubSeq(Wire, 5, 8), endianness))
            IN  /\ consumed = Len(Wire)
                /\ TopVal = [i \in 1..c |->
                                FromBytes(SubSeq(Wire, 8 * i + 5, 8 * i + 12),
                                          endianness)]]_vars

\* Two different u16 elements decoded from a stream after the count 2.
C13_Witness ==
    /\ status = "ok"
    /\ call.op = "deserialize_data_from"
    /\ call.shape = SeqOf(U16)
    /\ Len(ret.val) = 2
    /\ ret.val[1] # ret.val[2]
    /\ consumed = 8

\* The position after fields of primitive types fs laid out from position
\* p, each after its own padding.
RECURSIVE EndOfFields(_, _)
EndOfFields(fs, p) ==
    IF fs = <<>> THEN p
    ELSE LET w == IF Head(fs).k \in IntKinds THEN Width(Head(fs).k) ELSE 1
         IN  EndOfFields(Tail(fs), p + ((w - (p % w)) % w) + w)

\* The composites of primitive fields the model decodes.
PrimitiveComposite(s) ==
    /\ s.k \in TupleKinds
    /\ \A i \in 1..Len(s.fs) : s.fs[i].k \in IntKinds \cup {"bool", "char"}

\* C14: arrays, tuples, tuple structs and structs of n fields are decoded
\* as exactly n consecutive elements in declaration order, with no count,
\* length or tag of their own: each call of the Access decodes the next
\* declared field, and the bytes consumed are those of each element's own
\* padding and value.
C14_CompositeDecoding ==
    [][/\ (Running("access") /\ Top.s.k \in TupleKinds) =>
            /\ consumed' = consumed
            /\ Top.n + Top.i = Len(Top.s.fs)
            /\ IF Top.n > 0
               THEN LET e == Expand(Top.s.fs[Top.i + 1])
                    IN  /\ SubSeq(stack', 1, Len(e)) = e
                        /\ stack'[Len(e) + 1]
                             = F("access", Top.s, Top.n - 1, Top.i + 1)
               ELSE /\ Len(vals'[Len(vals')]) = Len(Top.s.fs)
                    /\ vals'[Len(vals')] = LastN(vals, Len(Top.s.fs))
       /\ (Running("return") /\ PrimitiveComposite(call.shape)) =>
            PayloadOffset = EndOfFields(call.shape.fs, 0)
       /\ (Running("return") /\ call.op = "deserialize"
                              /\ call.shape = TupleOf(<<U16, U8, U64>>)) =>
            TopVal = << FromBytes(SubSeq(Wire, 5, 6), endianness),
                        SubSeq(Wire, 7, 7),
                        FromBytes(SubSeq(Wire, 13, 20), endianness) >>
       /\ (Running("return") /\ call.op = "deserialize"
                              /\ call.shape.k = "struct") =>
            /\ TopVal[1] = (Wire[5] = 1)
            /\ TopVal[2] = FromBytes(SubSeq(Wire, 7, 8), endianness)
            /\ TopVal[3] = Wire[9]
            /\ TopVal[4] = FromBytes(SubSeq(Wire, 13, 16), endianness)]_vars

\* A (u16, u8, u64) decoded from 16 bytes of a stream: 2, 1, 5 of padding
\* and 8.
C14_Witness ==
    /\ status = "ok"
    /\ call.op = "deserialize_data_from"
    /\ call.shape = TupleOf(<<U16, U8, U64>>)
    /\ Len(ret.val) = 3
    /\ consumed = 16
    /\ prim.padded = 5

\* The i-th call still to run after the step, if there is one.
NextFrame(i) == IF Len(stack') >= i THEN stack'[i] ELSE Fr("none")

\* C15: enum decoding reads a 4-byte-aligned u32 variant index in the
\* active endianness; an index that is none of the declared variants fails
\* the decode with no payload byte consumed; otherwise the payload of that
\* variant follows: nothing for a unit variant, one value for a newtype
\* variant, the fields in order for a tuple or struct variant.
C15_EnumDecoding ==
    [][/\ Running("variant") =>
            LET idx == ToNat(TopVal)
                vs == Top.s.fs
            IN  /\ consumed' = consumed
                /\ idx >= Len(vs) => (status' = "err" /\ ret'.tag = "Err")
                /\ idx < Len(vs) =>
                     LET v == vs[idx + 1]
                     IN  /\ status' = "run"
                         /\ v.k = "unit_variant" =>
                              (NextFrame(1).op = "enum" /\ NextFrame(1).n = idx)
                         /\ v.k = "newtype_variant" =>
                              LET e == Expand(v.fs[1])
                              IN  /\ \A i \in 1..Len(e) : NextFrame(i) = e[i]
                                  /\ NextFrame(Len(e) + 1).op = "enum"
                                  /\ NextFrame(Len(e) + 1).n = idx
                         /\ v.k \in {"tuple_variant", "struct_variant"} =>
                              /\ NextFrame(1) = F("access", v, Len(v.fs), 0)
                              /\ NextFrame(2).op = "enum"
                              /\ NextFrame(2).n = idx
       /\ (Running("return") /\ call.shape.k = "enum") =>
            LET v == call.shape.fs[TopVal.idx + 1]
            IN  /\ Len(TopVal.payload) = Len(v.fs)
                /\ PayloadOffset = EndOfFields(v.fs, 4)
                /\ call.op = "deserialize" =>
                     TopVal.idx = ToNat(FromBytes(SubSeq(Wire, 5, 8), endianness))
       /\ (status' = "err" /\ Running("variant")) =>
            (call.op = "deserialize_data_from" => consumed' = 4)]_vars

\* The tuple variant (u8, u32) decoded from a little-endian stream: index
\* 2, then 1 + 3 + 4 bytes.
C15_Witness ==
    /\ status = "ok"
    /\ call.op = "deserialize_data_from"
    /\ call.shape.k = "enum"
    /\ endianness = "LittleEndian"
    /\ ret.val.idx = 2
    /\ Len(ret.val.payload) = 2
    /\ consumed = 12

\* An index naming no variant fails the decode after the four index bytes.
C15_WitnessInvalid ==
    /\ status = "err"
    /\ call.op = "deserialize_data_from"
    /\ call.shape.k = "enum"
    /\ ret = Err("Message")
    /\ consumed = 4

\* C16: decoding an option, a map, an identifier or an ignored value
\* returns TypeNotSupported and schema-less decoding returns
\* DeserializeAnyNotSupported, at once: no byte is taken from the source and
\* the position counter and the size-limit total stay as they were.
C16_UnsupportedShapes ==
    [][Running("unsupported") =>
         /\ Top.s.k \in {"option", "map", "identifier", "ignored_any", "any"}
         /\ status' = "err"
         /\ ret' = (IF Top.s.k = "any" THEN Err("DeserializeAnyNotSupported")
                    ELSE Err("TypeNotSupported"))
         /\ consumed' = consumed
         /\ reader' = reader
         /\ more' = more
         /\ pos' = pos
         /\ total' = total
         /\ (call.op = "deserialize_data_from" /\ call.shape.k \in UnsupportedKinds)
              => (consumed' = 0 /\ pos' = 0 /\ total' = 0)]_vars

\* A map refused under a bound, with the stream untouched.
C16_Witness ==
    /\ status = "err"
    /\ call.op = "deserialize_data_from"
    /\ call.shape.k = "map"
    /\ call.limit.bounded
    /\ ret = Err("TypeNotSupported")
    /\ consumed = 0
    /\ more > 0

\* C17: endianness changes byte order only.  Decoding a slice under a
\* big-endian format and decoding the slice with the bytes of each value of
\* width 2, 4 or 8 reversed under a little-endian format return the same
\* values and consume the same padding bytes and value bytes, from every
\* position the values start at; 1-byte values decode alike under both.
C17_EndiannessByteOrderOnly ==
    (call.op = "deserialize_data" /\ call.format = "CdrLe" /\ status # "run")
        => /\ status = "ok"
           /\ ret = call.prev.ret
           /\ consumed = call.prev.consumed
           /\ pos = call.prev.pos
           /\ prim.padded = call.prev.padded
           /\ consumed = Len(call.bytes)
           /\ \A x \in Byte :
                FromBytes(<<x>>, "BigEndian") = FromBytes(<<x>>, "LittleEndian")

\* A (u16, u8, u64) decoded to the same values from the slice and from
\* its value-reversed counterpart, which differ.
C17_Witness ==
    /\ call.op = "deserialize_data"
    /\ call.format = "CdrLe"
    /\ status = "ok"
    /\ call.shape = TupleOf(<<U16, U8, U64>>)
    /\ ret.val[3] # Reverse(ret.val[3])
    /\ prim.padded = 5
    /\ consumed = 16

\* The bytes consumed since the last reset_pos, after the step: all of
\* them, less the header once deserialize_from has reset the position.
SinceResetAfter ==
    IF /\ call.op \in {"deserialize", "deserialize_from"}
       /\ \A i \in 2..Len(stack) : stack[i].op # "reset_pos"
    THEN consumed' - ENCAPSULATION_HEADER_SIZE
    ELSE consumed'

\* After the step a deserialize_<integer> has counted its bytes and not
\* yet read them.
MidValueAfter == status' = "run" /\ NextFrame(1).op = "read_value"

Pending(op) == \E i \in 1..Len(stack) : stack[i].op = op

\* A call op is still to run after the step.
PendingAfter(op) == \E i \in 1..Len(stack') : stack'[i].op = op

\* C19: within one deserialize_from call the four header bytes are read
\* first, under the big-endian setting; then the endianness is set, once,
\* from the decoded format; then the position counter is reset to zero,
\* once; then the payload is traversed, and while it is the endianness does
\* not change and the position is not reset, whatever the nesting.
C19_DeserializeFromOrdering ==
    [][(status = "run" /\ call.op \in {"deserialize", "deserialize_from"}) =>
         /\ Pending("try_from") =>
              /\ endianness = "BigEndian"
              /\ Pending("reset_pos")
              /\ pos = consumed \/ Running("read_value")
              /\ consumed <= ENCAPSULATION_HEADER_SIZE
              /\ consumed' <= ENCAPSULATION_HEADER_SIZE
         /\ endianness' # endianness => Running("try_from")
         /\ (Running("try_from") /\ status' = "run") =>
              /\ consumed = ENCAPSULATION_HEADER_SIZE
              /\ endianness' = FormatEndianness(TryFrom(HeaderRead))
              /\ ~PendingAfter("try_from")
              /\ NextFrame(1).op = "reset_pos"
         /\ Running("reset_pos") =>
              /\ consumed = ENCAPSULATION_HEADER_SIZE
              /\ consumed' = consumed
              /\ pos' = 0
              /\ ~PendingAfter("reset_pos")
         /\ ~Pending("reset_pos") =>
              /\ consumed >= ENCAPSULATION_HEADER_SIZE
              /\ endianness' = endianness
              /\ pos' >= pos
              /\ ~PendingAfter("try_from")
              /\ ~PendingAfter("reset_pos")]_vars

\* The payload of a nested value under traversal by deserialize_from with
\* the little-endian setting the header gave.
C19_Witness ==
    /\ status = "run"
    /\ call.op = "deserialize_from"
    /\ ~Pending("reset_pos")
    /\ endianness = "LittleEndian"
    /\ call.shape.k = "enum"
    /\ Running("read_value")
    /\ pos = 12

\* C20: in serialize, with an unbounded and with a bounded size limit, the
\* capacity reserved for the output buffer before encoding is the length of
\* the byte vector returned, header included.
C20_ExactPresizing ==
    (status = "ok" /\ call.op = "serialize" /\ ret.tag = "Ok")
        => capacity = Len(ret.val)

\* C21: with a bounded size limit the running total is charged and checked
\* before an item's bytes are read from the source (padding, primitives,
\* bool, char, the payload of a count-prefixed buffer), so a step that fails
\* with the size-limit error has read none of that item's bytes.
C21_LimitCheckPrecedesConsumption ==
    [][(status = "run" /\ status' = "err" /\ ret' = Err("SizeLimit")) =>
         (consumed' = consumed /\ reader' = reader /\ more' = more)]_vars

\* The error the step about to run must return, whatever the source gives:
\* None when the step may succeed.
CertainError ==
    CASE Running("unsupported") ->
            Err(IF Top.s.k = "any" THEN "DeserializeAnyNotSupported"
                ELSE "TypeNotSupported")
      [] Running("bool") /\ TopVal[1] \notin {0, 1} ->
            ErrByte("InvalidBoolEncoding", TopVal[1])
      [] Running("variant") /\ ToNat(TopVal) >= Len(Top.s.fs) -> Err("Message")
      [] Running("read_size_of")
           /\ LimitExceeded(call.limit, total, Width(Top.s.k)) -> Err("SizeLimit")
      [] Running("read_string") /\ ~Utf8Valid(pop(TopVal)) ->
            Err("InvalidUtf8Encoding")
      [] Running("read_value") /\ reader = <<>> /\ more = 0 -> Err("Io")
      [] OTHER -> None

\* C22: once a decode step returns an error, inside a sequence, array,
\* struct or enum payload as anywhere, the top-level call returns that same
\* error and no value; the calls still pending are dropped, so no element
\* is visited and no byte is read after the failing step.
C22_ErrorsAbort ==
    [][/\ status # "err"
       /\ (status = "run" /\ CertainError # None) =>
            (status' = "err" /\ ret' = CertainError)
       /\ status' = "err" =>
            (ret'.tag = "Err" /\ stack' = <<>> /\ vals' = <<>>)
       /\ (status = "run" /\ status' = "ok") => ret'.tag = "Ok"]_vars

\* The first of two bools failed; the byte of the second is still in the
\* source.
C22_Witness ==
    /\ status = "err"
    /\ call.op = "deserialize_data_from"
    /\ call.shape = TupleOf(<<P("bool"), P("bool")>>)
    /\ ret = ErrByte("InvalidBoolEncoding", 2)
    /\ consumed = 1
    /\ more = 1

\* deserialize was given a strict prefix of the encoding of the value of
\* the call.
DecodingPrefix ==
    call.op = "deserialize_from" /\ ~call.limit.bounded /\ call.prev.tag = "Ok"

\* C23: for every valid encoding, header included, and every strict prefix
\* of it, deserialize on the prefix returns the I/O error of a short read
\* and never a value, wherever the cut falls: in the header, in padding, in
\* a length prefix or in a value.
C23_ShortInput ==
    (DecodingPrefix /\ status # "run")
        => (status = "err" /\ ret = Err("Io") /\ consumed <= Len(call.bytes))

\* A (u16, u8, u64) cut in the padding before the u64: two of its five
\* padding bytes are there.
C23_Witness ==
    /\ DecodingPrefix
    /\ status = "err"
    /\ ret = Err("Io")
    /\ call.shape = TupleOf(<<U16, U8, U64>>)
    /\ Len(call.bytes) = 9
    /\ call.format = "CdrLe"

\* The bytes the step about to run charges to the size limit.
ChargeOf ==
    CASE Running("read_size_of") -> Width(Top.s.k)
      [] Running("read_padding_of") -> read_padding_amount(pos, Width(Top.s.k))
      [] Running("read_vec") -> ToNat(TopVal)
      [] Running("char") -> 1
      [] OTHER -> 0

\* C24: in deserialize_from(source, bounded(max)) the four header bytes,
\* every padding byte and every value byte are charged to the size limit,
\* and reset_pos does not reset that total: the total is the bytes consumed,
\* header included; a step is refused with SizeLimit exactly when its bytes
\* would take the total beyond max, so a message is accepted exactly when 4
\* + its payload bytes is at most max.
C24_DecodeBoundAccounting ==
    [][(status = "run" /\ call.op = "deserialize_from" /\ call.limit.bounded) =>
         LET max == call.limit.max
         IN  /\ total <= max
             /\ (status' = "err" /\ ret' = Err("SizeLimit")) => total + ChargeOf > max
             /\ total + ChargeOf > max =>
                  /\ status' = "err"
                  /\ ~Running("char") => (ret' = Err("SizeLimit") /\ consumed' = consumed)
             /\ status' # "err" =>
                  /\ total' = total + ChargeOf
                  /\ total' = consumed' + (IF MidValueAfter
                                            THEN Width(NextFrame(1).s.k) ELSE 0)
             /\ Running("reset_pos") =>
                  (total = ENCAPSULATION_HEADER_SIZE /\ total' = total /\ pos' = 0)
             /\ status' = "ok" =>
                  (total' = ENCAPSULATION_HEADER_SIZE + pos' /\ total' <= max)]_vars

\* A message of 4 payload bytes accepted under the bound 8.
C24_Witness ==
    /\ status = "ok"
    /\ call.op = "deserialize_from"
    /\ call.limit = Bounded(8)
    /\ pos = 4
    /\ total = 8
    /\ consumed = 8

\* A message whose fifth payload byte the bound 8 refuses.
C24_WitnessRefused ==
    /\ status = "err"
    /\ call.op = "deserialize_from"
    /\ call.limit = Bounded(8)
    /\ ret = Err("SizeLimit")
    /\ total = 8
    /\ consumed = 8

\* C25: when serialize(value, format, bounded(max)) succeeds with bytes B,
\* deserialize_from(B, bounded(max)) with the same max does not fail with
\* the size-limit error and returns the value.
C25_EncodeDecodeAgreeOnBound ==
    (call.op = "deserialize_from" /\ call.limit.bounded /\ call.prev.tag = "Ok"
                                  /\ status # "run")
        => (status = "ok" /\ ret = Ok(call.value))

\* C26: for every format F, reserved field r, payload P and type,
\* deserialize(bigendian16(id of F) ++ r ++ P) gives the outcome of
\* deserialize_data(P, F), the same value or the same error: after the
\* header the decoder is at position 0 with the endianness of F, as a
\* decoder without header starts, so alignment is relative to the payload.
C26_FramedUnframedAgree ==
    call.op = "deserialize" =>
        /\ status # "run" =>
             /\ ret = call.prev.ret
             /\ status = "ok" =>
                  (pos = call.prev.pos
                   /\ consumed = ENCAPSULATION_HEADER_SIZE + call.prev.pos)
        /\ (status = "run" /\ ~Pending("reset_pos")) =>
             /\ endianness = FormatEndianness(call.format)
             /\ (consumed = ENCAPSULATION_HEADER_SIZE /\ ~Running("read_value"))
                  => pos = 0

\* A (u8, u64) decoded alike from a little-endian payload and from the
\* payload behind its header with a nonzero reserved field.
C26_Witness ==
    /\ call.op = "deserialize"
    /\ status = "ok"
    /\ call.format = "PlCdrLe"
    /\ SubSeq(call.bytes, 3, 4) = <<1, 2>>
    /\ call.shape = TupleOf(<<U8, U64>>)
    /\ ret = call.prev.ret
    /\ ret.val[2] # Reverse(ret.val[2])
    /\ consumed = 20

\* A payload one byte short fails alike with and without its header.
C26_WitnessError ==
    /\ call.op = "deserialize"
    /\ status = "err"
    /\ call.shape = TupleOf(<<U8, U64>>)
    /\ Len(call.bytes) = 19
    /\ ret = Err("Io")
    /\ call.prev.ret = Err("Io")

\* C27: decoding a string whose u32 length prefix is 0 does not fail: it
\* consumes no byte after the prefix and returns the empty string, the
\* value the canonical encoding (length 1 and the terminator byte) decodes
\* to, so two different inputs decode to the same string.
C27_ZeroLengthString ==
    [][/\ ReadingString(0) =>
            /\ status' = "run"
            /\ consumed' = consumed
            /\ pos' = pos
            /\ vals'[Len(vals')] = <<>>
       /\ (Running("read_string") /\ Len(TopVal) <= 1) =>
            /\ status' = "run"
            /\ consumed' = consumed
            /\ vals'[Len(vals')] = <<>>
       /\ (Running("return") /\ call.op = "deserialize_data_from"
                              /\ call.shape = Str /\ consumed \in {4, 5}) =>
            ret' = Ok(<<>>)]_vars

\* The empty string decoded from the four bytes of a zero prefix, with a
\* byte left in the source.
C27_Witness ==
    /\ status = "ok"
    /\ call.op = "deserialize_data_from"
    /\ call.shape = Str
    /\ ret = Ok(<<>>)
    /\ consumed = 4
    /\ more > 0

\* The empty string decoded from the canonical five bytes.
C27_WitnessCanonical ==
    /\ status = "ok"
    /\ call.op = "deserialize_data_from"
    /\ call.shape = Str
    /\ ret = Ok(<<>>)
    /\ consumed = 5

====
